---- MODULE Spec2Model ----
(***************************************************************************)
(* A model of django-args' views (src/djarg/views.py): the wizard          *)
(* argument-resolution logic of WizardView (condition cache, cleaned-data  *)
(* cache, accumulation, completion) and the run-failure handling of        *)
(* FormMixin and SuccessMessageMixin.                                       *)
(*                                                                         *)
(* One controller instance serves one request.  The session storage of     *)
(* django-formtools (per-step submitted data and the current step) is the  *)
(* part of the state that survives a request.  formtools and Django are    *)
(* external collaborators; the operators that stand for them are marked    *)
(* "formtools:" / "django:" and are reached from the source only through   *)
(* super() calls and hooks.                                                *)
(***************************************************************************)
EXTENDS Integers, Sequences, FiniteSets, TLC

\* ------------------------------------------------------------------ data

\* The wizard under study declares three steps, as GrantStaffCondWizardView.
NSteps == 3
\* Submitted values of the "source" field range over 1 .. MaxSource.
MaxSource == 2
\* The objects of the model have the primary keys 1 .. MaxPk.
MaxPk == 2
\* A query string holds at most MaxVals values of the pk argument.
MaxVals == 2
Steps == 0 .. (NSteps - 1)
\* Python's None where a step is expected (until=None, current_step None).
NoStep == 0 - 1
\* Python's None / a value, for results that may be None.
None == <<>>
Some(m) == <<m>>
\* The empty dict.
EmptyDict == <<>>
\* A submitted value that the form's validators reject.
Bad == 0 - 1

\* {**d, **e}, and d.update(e): the keys of e override those of d.
Update(d, e) ==
    [k \in (DOMAIN d) \cup (DOMAIN e) |-> IF k \in DOMAIN e THEN e[k] ELSE d[k]]

\* The form of each declared step: step 0 carries is_staff, the later steps
\* carry source (GrantAccessStepIsStaffTrue and ...False share that field).
FieldsOf(step) == IF step = 0 THEN {"is_staff"} ELSE {"source"}
FieldValues(field) == IF field = "is_staff" THEN {0, 1} ELSE 1 .. MaxSource
\* What a client can post for a form with these fields: every field, with
\* a good value or a rejected one.
PostedWith(fields) ==
    {d \in [fields -> {0, 1} \cup (1 .. MaxSource) \cup {Bad}] :
        \A f \in fields : d[f] \in FieldValues(f) \cup {Bad}}
PostedFor(step) == PostedWith(FieldsOf(step))

\* The kinds of entry of condition_dict.
ArgFuncs == {"is_staff", "not_is_staff"}
Conditions == {"absent", "const_false", "callable"} \cup ArgFuncs

\* The success_message templates ('' is the class default).
Templates == {"", "{source}{results}"}
\* What the bound function returns.
Results == {"", "done"}
\* How a run of the bound function ends: it raises, or it returns a result.
Runs ==
    {[raises |-> TRUE, results |-> ""]} \cup
    {[raises |-> FALSE, results |-> r] : r \in Results}

VARIABLES
    view,                     \* "WizardView" or "FormView": the class served
    condition_dict,           \* class attribute: step -> condition
    raise_run_errors,         \* class attribute
    success_message,          \* class attribute (SuccessMessageMixin)
    step_data,                \* storage: step -> submitted data or None
    current_step,             \* storage.current_step
    condition_cache,          \* self._condition_cache
    cleaned_step_data_cache,  \* self._cleaned_step_data_cache
    clean_calls,              \* step -> framework-level cleans on this instance
    condition_calls,          \* step -> resolutions of its condition on this instance
    load_calls,               \* step -> arg.load calls of its condition on this instance
    func_calls,               \* executions of the bound function in this request
    func_args,                \* self.func_args (None until run_func sets it)
    func_results,             \* self.func_results
    messages,                 \* success messages recorded by this request
    response,                 \* the response of the last request
    ret                       \* the last call on the instance and its result

vars == <<view, condition_dict, raise_run_errors, success_message, step_data,
          current_step, condition_cache, cleaned_step_data_cache, clean_calls,
          condition_calls, load_calls, func_calls, func_args, func_results, messages,
          response, ret>>

\* ViewMixin.get_default_args, as overridden by a view that also supplies a
\* default for "source".
get_default_args == [k \in {"request", "source"} |-> 0]

\* arg.load(condition, **args) for the two arg.func conditions of the tests.
arg_load(condition, args) ==
    IF condition = "is_staff" THEN args["is_staff"] = 1 ELSE args["is_staff"] # 1

\* django: Form.is_valid() for the data stored or posted for a step; an
\* unbound form (data None) is not valid.
is_valid(step, data) ==
    /\ data # None
    /\ \A f \in DOMAIN data : data[f] # Bad

\* A controller instance right after construction: no cache attribute yet.
NewInstance ==
    [data |-> <<>>, cond |-> <<>>, calls |-> [s \in Steps |-> 0],
     resolves |-> [s \in Steps |-> 0], loads |-> [s \in Steps |-> 0]]

\* The methods below call one another as in the source.  Each takes the
\* instance st and the storage's step data sd and returns the instance it
\* leaves with the value it returns; a result is handed on as the argument
\* of a local operator, so that every call of the source is one call here.
RECURSIVE get_form_list_from(_, _, _, _, _)
RECURSIVE get_cleaned_data_from(_, _, _, _)
RECURSIVE get_cleaned_data_for_step(_, _, _)
RECURSIVE super_get_cleaned_data_for_step(_, _, _)
RECURSIVE get_form(_, _, _)

\* get_cleaned_data ending the fold only at a first step without cleaned
\* data: a later step that has none is skipped.
get_cleaned_data_from_skip(st, sd, steps, cleaned_data) ==
    IF steps = <<>>
    THEN [st |-> st, val |-> Some(cleaned_data)]
    ELSE LET merge(r) ==
                 IF r.val = None /\ cleaned_data = EmptyDict
                 THEN [st |-> r.st, val |-> None]
                 ELSE get_cleaned_data_from(r.st, sd, Tail(steps),
                                            IF r.val = None THEN cleaned_data
                                            ELSE Update(cleaned_data, r.val[1]))
         IN  merge(get_cleaned_data_for_step(st, sd, Head(steps)))

\* get_cleaned_data with the merge turned round: the earlier step wins.
get_cleaned_data_from_first(st, sd, steps, cleaned_data) ==
    IF steps = <<>>
    THEN [st |-> st, val |-> Some(cleaned_data)]
    ELSE LET merge(r) ==
                 IF r.val = None
                 THEN [st |-> r.st, val |-> None]
                 ELSE get_cleaned_data_from(r.st, sd, Tail(steps),
                                            Update(r.val[1], cleaned_data))
         IN  merge(get_cleaned_data_for_step(st, sd, Head(steps)))

\* WizardView.get_cleaned_data: fold over the steps in the order given,
\* None as soon as one step has no cleaned data.
get_cleaned_data_from(st, sd, steps, cleaned_data) ==
    IF steps = <<>>
    THEN [st |-> st, val |-> Some(cleaned_data)]
    ELSE LET merge(r) ==
                 IF r.val = None
                 THEN [st |-> r.st, val |-> None]
                 ELSE get_cleaned_data_from(r.st, sd, Tail(steps),
                                            Update(cleaned_data, r.val[1]))
         IN  merge(get_cleaned_data_for_step(st, sd, Head(steps)))

\* get_cleaned_data reading, besides the steps it is given, every declared
\* step before the last of them that the storage holds data for.
get_cleaned_data_stored(st, sd, steps) ==
    LET last == IF steps = <<>> THEN NoStep ELSE steps[Len(steps)]
        read(s) == \/ \E i \in DOMAIN steps : steps[i] = s
                   \/ s < last /\ sd[s] # None
    IN  get_cleaned_data_from(st, sd,
                              SelectSeq([i \in 1 .. NSteps |-> i - 1], read),
                              EmptyDict)

\* WizardView.get_cleaned_data(*steps), from an empty dict.
get_cleaned_data(st, sd, steps) == get_cleaned_data_from(st, sd, steps, EmptyDict)

\* resolve_condition failing closed: a condition without its data is False.
resolve_condition_closed(st, sd, step, form_list) ==
    LET condition == condition_dict[step]
        load(r) ==
            IF r.val # None
            THEN [st |-> [r.st EXCEPT !.loads[step] = @ + 1],
                  val |-> arg_load(condition, Update(get_default_args, r.val[1]))]
            ELSE [st |-> r.st, val |-> FALSE]
    IN  IF condition \in ArgFuncs
        THEN load(get_cleaned_data(st, sd, form_list))
        ELSE IF condition = "callable"
        THEN [st |-> st, val |-> TRUE]
        ELSE [st |-> st, val |-> (condition = "absent")]

\* resolve_condition looking only at the included steps that carry the
\* field the condition reads: the condition is loaded as soon as those
\* have validated.
resolve_condition_fields(st, sd, step, form_list) ==
    LET condition == condition_dict[step]
        load(r) ==
            IF r.val # None
            THEN [st |-> [r.st EXCEPT !.loads[step] = @ + 1],
                  val |-> arg_load(condition, Update(get_default_args, r.val[1]))]
            ELSE [st |-> r.st, val |-> TRUE]
    IN  IF condition \in ArgFuncs
        THEN load(get_cleaned_data(st, sd,
                                   SelectSeq(form_list,
                                             LAMBDA s : "is_staff" \in FieldsOf(s))))
        ELSE IF condition = "callable"
        THEN [st |-> st, val |-> TRUE]
        ELSE [st |-> st, val |-> (condition = "absent")]

\* Lines 234-250 of get_form_list: the condition of a step not yet cached.
\* An arg.func condition is loaded with the defaults and the cleaned data
\* of the steps included so far, and is True when that data is None; a
\* plain callable is called with the wizard (the callables of the views
\* under study return True); a constant is itself; a missing entry is True.
resolve_condition(st, sd, step, form_list) ==
    LET condition == condition_dict[step]
        load(r) ==
            IF r.val # None
            THEN [st |-> [r.st EXCEPT !.loads[step] = @ + 1],
                  val |-> arg_load(condition, Update(get_default_args, r.val[1]))]
            ELSE [st |-> r.st, val |-> TRUE]
    IN  IF condition \in ArgFuncs
        THEN load(get_cleaned_data(st, sd, form_list))
        ELSE IF condition = "callable"
        THEN [st |-> st, val |-> TRUE]
        ELSE [st |-> st, val |-> (condition = "absent")]

\* get_form_list putting an included step in front of the list.
get_form_list_from_front(st, sd, until, step, form_list) ==
    IF step = NSteps \/ step = until
    THEN [st |-> st, val |-> form_list]
    ELSE LET cache(r) == [r.st EXCEPT !.cond = Update(@, step :> r.val),
                                         !.resolves[step] = @ + 1]
             include(st1) ==
                 get_form_list_from(st1, sd, until, step + 1,
                                    IF st1.cond[step] THEN <<step>> \o form_list
                                                      ELSE form_list)
         IN  include(IF step \in DOMAIN st.cond
                     THEN st
                     ELSE cache(resolve_condition(st, sd, step, form_list)))

\* The loop of WizardView.get_form_list from `step` on, form_list being the
\* steps included so far: stop at `until`, resolve and cache the condition
\* of a step that has none cached, include the step when it is true.
get_form_list_from(st, sd, until, step, form_list) ==
    IF step = NSteps \/ step = until
    THEN [st |-> st, val |-> form_list]
    ELSE LET cache(r) == [r.st EXCEPT !.cond = Update(@, step :> r.val),
                                         !.resolves[step] = @ + 1]
             include(st1) ==
                 get_form_list_from(st1, sd, until, step + 1,
                                    IF st1.cond[step] THEN Append(form_list, step)
                                                      ELSE form_list)
         IN  include(IF step \in DOMAIN st.cond
                     THEN st
                     ELSE cache(resolve_condition(st, sd, step, form_list)))

\* get_form_list with one cache for the class: an instance starts from the
\* conditions the instance before it left.
get_form_list_shared(st, sd, until) ==
    get_form_list_from([st EXCEPT !.cond = Update(condition_cache, @)],
                       sd, until, 0, <<>>)

\* get_form_list answering a call that names `until` from the step data
\* alone, on caches of its own.
get_form_list_apart(st, sd, until) ==
    LET answer(r) == [st |-> st, val |-> r.val]
    IN  IF until = NoStep
        THEN get_form_list_from(st, sd, until, 0, <<>>)
        ELSE answer(get_form_list_from(NewInstance, sd, until, 0, <<>>))

\* WizardView.get_form_list: lines 226-227 take the instance's own cache,
\* an empty one on the first call, and the loop walks the declared steps.
get_form_list(st, sd, until) == get_form_list_from(st, sd, until, 0, <<>>)

\* get_cleaned_data_for_step without the cache test: every call cleans.
get_cleaned_data_for_step_uncached(st, sd, step) ==
    LET cache(r) ==
            [st |-> [r.st EXCEPT !.data = Update(@, step :> r.val)], val |-> r.val]
    IN  cache(super_get_cleaned_data_for_step(st, sd, step))

\* get_cleaned_data_for_step with one cache for the class: a step that the
\* instance before had cleaned is answered with that instance's outcome.
get_cleaned_data_for_step_shared(st, sd, step) ==
    LET cache(r) ==
            [st |-> [r.st EXCEPT !.data = Update(@, step :> r.val)], val |-> r.val]
    IN  IF step \in DOMAIN st.data
        THEN [st |-> st, val |-> st.data[step]]
        ELSE IF step \in DOMAIN cleaned_step_data_cache
        THEN cache([st |-> st, val |-> cleaned_step_data_cache[step]])
        ELSE cache(super_get_cleaned_data_for_step(st, sd, step))

\* WizardView.get_cleaned_data_for_step: the cached outcome, or the
\* framework's clean, cached.
get_cleaned_data_for_step(st, sd, step) ==
    LET cache(r) ==
            [st |-> [r.st EXCEPT !.data = Update(@, step :> r.val)], val |-> r.val]
    IN  IF step \in DOMAIN st.data
        THEN [st |-> st, val |-> st.data[step]]
        ELSE cache(super_get_cleaned_data_for_step(st, sd, step))

\* formtools: WizardView.get_cleaned_data_for_step builds the step's form
\* through self.get_form(step=step, data=storage.get_step_data(step)) and
\* returns its cleaned_data when it is valid, None otherwise.
super_get_cleaned_data_for_step(st, sd, step) ==
    LET clean(f) ==
            [st |-> f.st,
             val |-> IF is_valid(step, sd[step]) THEN Some(sd[step]) ELSE None]
    IN  clean(get_form([st EXCEPT !.calls[step] = @ + 1], sd, step))

\* get_form with the overlay turned round: a default wins over a step's
\* field of the same name.
get_form_defaults_last(st, sd, step) ==
    LET context(cleaned) ==
            [st |-> cleaned.st,
             val |-> Update(IF cleaned.val = None THEN EmptyDict ELSE cleaned.val[1],
                            get_default_args)]
        accumulate(steps_so_far) ==
            context(get_cleaned_data(steps_so_far.st, sd, steps_so_far.val))
    IN  accumulate(get_form_list(st, sd, step))

\* WizardView.get_form for an explicit step: the default context handed to
\* djarg.forms.adapt is the defaults overlaid with the cleaned data of the
\* steps before it, or the defaults alone when that data is None.
get_form(st, sd, step) ==
    LET context(cleaned) ==
            [st |-> cleaned.st,
             val |-> Update(get_default_args,
                            IF cleaned.val = None THEN EmptyDict ELSE cleaned.val[1])]
        accumulate(steps_so_far) ==
            context(get_cleaned_data(steps_so_far.st, sd, steps_so_far.val))
    IN  accumulate(get_form_list(st, sd, step))

\* formtools: StepsHelper.all / first / last / current over get_form_list().
steps_all(st, sd) == get_form_list(st, sd, NoStep)

steps_first(st, sd) ==
    LET first(all) == [st |-> all.st, val |-> Head(all.val)]
    IN  first(steps_all(st, sd))

steps_last(st, sd) ==
    LET last(all) == [st |-> all.st, val |-> all.val[Len(all.val)]]
    IN  last(steps_all(st, sd))

\* storage.current_step or self.first
steps_current(st, sd, cur) ==
    IF cur # NoStep THEN [st |-> st, val |-> cur] ELSE steps_first(st, sd)

\* ------------------------------------------------------- responses

NoResponse == [step |-> NoStep, kind |-> "none", error |-> ""]
\* A rendered step form; error names what was attached to the form.
Render(step, error) == [kind |-> "render", step |-> step, error |-> error]
\* shortcuts.redirect(self.get_success_url())
Redirect == [step |-> NoStep, kind |-> "redirect", error |-> ""]
\* An exception that leaves the view.
Raised(exc) == [kind |-> "exception", step |-> NoStep, error |-> exc]

\* What one request leaves behind: the instance, the storage, the response
\* and the attributes run_func sets.
Outcome(st, sd, cur, resp, calls, args, results, msgs) ==
    [st |-> st, sd |-> sd, cur |-> cur, response |-> resp, func_calls |-> calls,
     func_args |-> args, func_results |-> results, messages |-> msgs]

\* A request that never reached run_func.
Plain(st, sd, cur, resp) == Outcome(st, sd, cur, resp, 0, None, None, <<>>)

\* storage.reset(): no step data, no current step.
NoStepData == [s \in Steps |-> None]

\* ------------------------------------------------------ SuccessMessageMixin

\* SuccessMessageMixin.get_success_message: success_message.format(results=..., **args);
\* the text is the sequence of the values formatted in, '' the empty sequence.
get_success_message(args, results) ==
    IF success_message = "" THEN <<>> ELSE <<args["source"], results>>

\* set_success_message without the test for an empty text.
set_success_message_always(msgs, args, results) ==
    Append(msgs, get_success_message(args, results))

\* SuccessMessageMixin.set_success_message: messages.success only for a
\* non-empty text.
set_success_message(msgs, args, results) ==
    LET text == get_success_message(args, results)
    IN  IF text # <<>> THEN Append(msgs, text) ELSE msgs

\* ------------------------------------------------------ wizard completion

\* run_func with a stop boundary: the step list ends before the last
\* declared step.
run_func_until_last(st, sd, raises, results) ==
    LET call(cleaned) ==
            IF cleaned.val = None
            THEN [st |-> cleaned.st, exc |-> "TypeError", func_calls |-> 0,
                  func_args |-> None, func_results |-> None]
            ELSE [st |-> cleaned.st, exc |-> IF raises THEN "RuntimeError" ELSE "",
                  func_calls |-> 1,
                  func_args |-> Some(Update(get_default_args, cleaned.val[1])),
                  func_results |-> IF raises THEN None ELSE Some(results)]
        accumulate(form_list) ==
            call(get_cleaned_data(form_list.st, sd, form_list.val))
    IN  accumulate(get_form_list(st, sd, NSteps - 1))

\* WizardView.run_func.  exc is the exception that left it ("" for none):
\* a TypeError when the accumulated data is None, the function's own
\* RuntimeError when it raises.
run_func(st, sd, raises, results) ==
    LET call(cleaned) ==
            IF cleaned.val = None
            THEN [st |-> cleaned.st, exc |-> "TypeError", func_calls |-> 0,
                  func_args |-> None, func_results |-> None]
            ELSE [st |-> cleaned.st, exc |-> IF raises THEN "RuntimeError" ELSE "",
                  func_calls |-> 1,
                  func_args |-> Some(Update(get_default_args, cleaned.val[1])),
                  func_results |-> IF raises THEN None ELSE Some(results)]
        accumulate(form_list) ==
            call(get_cleaned_data(form_list.st, sd, form_list.val))
    IN  accumulate(get_form_list(st, sd, NoStep))

\* done() running the function a second time to read its results.
done_rerun(st, sd, raises, results) ==
    LET finish(run) ==
            IF run.exc # ""
            THEN [run |-> run, messages |-> <<>>]
            ELSE [run |-> run,
                  messages |-> set_success_message(<<>>, run.func_args[1],
                                                   run.func_results[1])]
        both(first, again) ==
            [again EXCEPT !.func_calls = first.func_calls + again.func_calls]
        rerun(first) == finish(both(first, run_func(first.st, sd, raises, results)))
    IN  rerun(run_func(st, sd, raises, results))

\* WizardView.done under SuccessMessageMixin.done: run the function, build
\* the redirect, then record the success message.
done(st, sd, raises, results) ==
    LET finish(run) ==
            IF run.exc # ""
            THEN [run |-> run, messages |-> <<>>]
            ELSE [run |-> run,
                  messages |-> set_success_message(<<>>, run.func_args[1],
                                                   run.func_results[1])]
    IN  finish(run_func(st, sd, raises, results))

\* formtools: the revalidation loop of WizardView.render_done; the first
\* step of `steps` whose stored form is not valid, NoStep when all are.
RECURSIVE revalidate(_, _, _)
revalidate(st, sd, steps) ==
    IF steps = <<>>
    THEN [st |-> st, val |-> NoStep]
    ELSE LET check(form_obj) ==
                 IF ~is_valid(Head(steps), sd[Head(steps)])
                 THEN [st |-> form_obj.st, val |-> Head(steps)]
                 ELSE revalidate(form_obj.st, sd, Tail(steps))
         IN  check(get_form(st, sd, Head(steps)))

\* formtools: WizardView.render_done for the storage sd: revalidate every
\* active step, call done(), reset the storage.  exc is the exception that
\* left it ("" for none); out is what the request has done so far.
super_render_done(st, sd, cur, raises, results) ==
    LET finish(fin) ==
            IF fin.run.exc = ""
            THEN \* storage.reset() after done()
                 [exc |-> "",
                  out |-> Outcome(fin.run.st, NoStepData, NoStep, Redirect,
                                  fin.run.func_calls, fin.run.func_args,
                                  fin.run.func_results, fin.messages)]
            ELSE [exc |-> fin.run.exc,
                  out |-> Outcome(fin.run.st, sd, cur, NoResponse,
                                  fin.run.func_calls, fin.run.func_args,
                                  fin.run.func_results, fin.messages)]
        complete(failed) ==
            IF failed.val # NoStep
            THEN \* render_revalidation_failure(form_key, form_obj)
                 [exc |-> "",
                  out |-> Plain(failed.st, sd, failed.val,
                                Render(failed.val, "revalidation"))]
            ELSE finish(done(failed.st, sd, raises, results))
        walk(form_list) == complete(revalidate(form_list.st, sd, form_list.val))
    IN  walk(get_form_list(st, sd, NoStep))

\* render_done resetting the storage before it shows the contained
\* exception.
render_done_reset(st, sd, cur, before, raises, results) ==
    LET contain(r, current) ==
            [r.out EXCEPT !.st = current.st, !.sd = NoStepData, !.cur = current.val,
                          !.response = Render(current.val, r.exc)]
        handle(r) ==
            IF r.exc = ""
            THEN r.out
            ELSE IF ~raise_run_errors
            THEN contain(r, steps_current(r.out.st, sd, cur))
            ELSE [r.out EXCEPT !.sd = before.sd, !.cur = before.cur,
                               !.response = Raised(r.exc)]
    IN  handle(super_render_done(st, sd, cur, raises, results))

\* render_done with the test of raise_run_errors turned round.
render_done_inverted(st, sd, cur, before, raises, results) ==
    LET contain(r, current) ==
            [r.out EXCEPT !.st = current.st, !.cur = current.val,
                          !.response = Render(current.val, r.exc)]
        handle(r) ==
            IF r.exc = ""
            THEN r.out
            ELSE IF raise_run_errors
            THEN contain(r, steps_current(r.out.st, sd, cur))
            ELSE [r.out EXCEPT !.sd = before.sd, !.cur = before.cur,
                               !.response = Raised(r.exc)]
    IN  handle(super_render_done(st, sd, cur, raises, results))

\* WizardView.render_done: an exception of the completion is added to the
\* form and the current step rendered again, or re-raised.  `before` is the
\* storage the session keeps when an exception leaves the view.
render_done(st, sd, cur, before, raises, results) ==
    LET \* form.add_error(None, exc); render_revalidation_failure(steps.current, form)
        contain(r, current) ==
            [r.out EXCEPT !.st = current.st, !.cur = current.val,
                          !.response = Render(current.val, r.exc)]
        handle(r) ==
            IF r.exc = ""
            THEN r.out
            ELSE IF ~raise_run_errors
            THEN contain(r, steps_current(r.out.st, sd, cur))
            ELSE [r.out EXCEPT !.sd = before.sd, !.cur = before.cur,
                               !.response = Raised(r.exc)]
    IN  handle(super_render_done(st, sd, cur, raises, results))

\* render_next_step showing the submitted step again instead of the one
\* after it.
render_next_step_same(st, sd, cur, step, before) ==
    LET show(new_form, next_step) ==
            Plain(new_form.st, sd, next_step, Render(next_step, ""))
        next(form_list, keys) ==
            IF \A i \in 1 .. Len(keys) : keys[i] # step
            THEN Plain(form_list.st, before.sd, before.cur, Raised("ValueError"))
            ELSE LET at == CHOOSE i \in 1 .. Len(keys) : keys[i] = step
                 IN  show(get_form(form_list.st, sd, keys[at]), keys[at])
        active(form_list) == next(form_list, form_list.val)
    IN  active(get_form_list(st, sd, NoStep))

\* formtools: WizardView.render_next_step with get_next_step(); keys.index(step)
\* raises ValueError for a step that is not in the active list.
render_next_step(st, sd, cur, step, before) ==
    LET show(new_form, next_step) ==
            Plain(new_form.st, sd, next_step, Render(next_step, ""))
        next(form_list, keys) ==
            IF \A i \in 1 .. Len(keys) : keys[i] # step
            THEN Plain(form_list.st, before.sd, before.cur, Raised("ValueError"))
            ELSE LET at == CHOOSE i \in 1 .. Len(keys) : keys[i] = step
                 IN  show(get_form(form_list.st, sd, keys[at + 1]), keys[at + 1])
        active(form_list) == next(form_list, form_list.val)
    IN  active(get_form_list(st, sd, NoStep))

\* formtools: WizardView.post on a new instance.  c is the current_step the
\* client posts, d the data it posts for that step.  The posted step is
\* compared with steps.current first, then the form of steps.current is
\* built from the posted data; a valid form is stored and the wizard
\* completes on the last step or moves to the next one.
post(c, d, raises, results) ==
    LET before == [sd |-> step_data, cur |-> current_step]
        stored(step) == [step_data EXCEPT ![step] = d]
        advance(step, cur, last) ==
            IF step = last.val
            THEN render_done(last.st, stored(step), cur, before, raises, results)
            ELSE render_next_step(last.st, stored(step), cur, step, before)
        validate(step, cur, form) ==
            IF ~(c = step /\ is_valid(step, d))
            THEN Plain(form.st, step_data, cur, Render(step, "invalid"))
            ELSE advance(step, cur, steps_last(form.st, stored(step)))
        build(step, cur) ==
            validate(step.val, cur, get_form(step.st, step_data, step.val))
        resume(shown, cur) ==
            build(steps_current(shown.st, step_data, cur), cur)
        compare(shown) ==
            resume(shown, IF c # shown.val /\ current_step # NoStep
                          THEN c ELSE current_step)
    IN  compare(steps_current(NewInstance, step_data, current_step))

\* formtools: WizardView.get on a new instance: reset the storage, show the
\* first step.
get ==
    LET show(form, step) == Plain(form.st, NoStepData, step, Render(step, ""))
        build(first) == show(get_form(first.st, NoStepData, first.val), first.val)
    IN  build(steps_first(NewInstance, NoStepData))

\* ------------------------------------------------------------- FormView

\* The form of the single-form view carries the source field.
FormFields == {"source"}

\* FormMixin.run_func: the function's arguments are the defaults overlaid
\* with the form's cleaned data.
form_run_func(cleaned_data, raises, results) ==
    [exc |-> IF raises THEN "RuntimeError" ELSE "",
     func_calls |-> 1,
     func_args |-> Some(Update(get_default_args, cleaned_data)),
     func_results |-> IF raises THEN None ELSE Some(results)]

\* FormMixin.form_valid under SuccessMessageMixin.form_valid.
form_valid(cleaned_data, raises, results) ==
    LET finish(run) ==
            IF run.exc # ""
            THEN [run |-> run, messages |-> <<>>]
            ELSE [run |-> run,
                  messages |-> set_success_message(<<>>, run.func_args[1],
                                                   run.func_results[1])]
    IN  finish(form_run_func(cleaned_data, raises, results))

\* django: ProcessFormView.post: form_valid for a valid form, form_invalid
\* otherwise.  exc is the exception that left it ("" for none).
super_post(d, raises, results) ==
    LET respond(fin) ==
            [exc |-> fin.run.exc,
             out |-> Outcome(NewInstance, step_data, current_step,
                             IF fin.run.exc = "" THEN Redirect ELSE NoResponse,
                             fin.run.func_calls, fin.run.func_args,
                             fin.run.func_results, fin.messages)]
    IN  IF ~is_valid(NoStep, d)
        THEN [exc |-> "",
              out |-> Plain(NewInstance, step_data, current_step,
                            Render(NoStep, "invalid"))]
        ELSE respond(form_valid(d, raises, results))

\* FormMixin.post with the test of raise_run_errors turned round.
form_post_inverted(d, raises, results) ==
    LET handle(r) ==
            IF r.exc = ""
            THEN r.out
            ELSE IF raise_run_errors
            THEN [r.out EXCEPT !.response = Render(NoStep, r.exc)]
            ELSE [r.out EXCEPT !.response = Raised(r.exc)]
    IN  handle(super_post(d, raises, results))

\* FormMixin.post: an exception of the submission is added to a new form
\* and the form shown again through form_invalid, or re-raised.
form_post(d, raises, results) ==
    LET handle(r) ==
            IF r.exc = ""
            THEN r.out
            ELSE IF ~raise_run_errors
            THEN \* form = self.get_form(); form.add_error(None, exc); form_invalid(form)
                 [r.out EXCEPT !.response = Render(NoStep, r.exc)]
            ELSE [r.out EXCEPT !.response = Raised(r.exc)]
    IN  handle(super_post(d, raises, results))

\* ------------------------------------------------------------ the machine

\* The instance as the operators above thread it.
Self == [cond |-> condition_cache, data |-> cleaned_step_data_cache,
         calls |-> clean_calls, resolves |-> condition_calls,
         loads |-> load_calls]

\* The last call: its name, its argument and what it returned.
Called(op, arg, val) == [val |-> val, op |-> op, arg |-> arg]

\* The wizards served.  The first step is always shown and the arg.func
\* conditions of the later steps read its is_staff field:
\* GrantStaffCondWizardView, a wizard whose last step alone is conditional,
\* and one with a constant False condition.
CondDicts ==
    {<<"callable", "is_staff", "not_is_staff">>,
     <<"absent", "absent", "is_staff">>,
     <<"absent", "const_false", "absent">>}

\* condition_dict of a wizard: the declared steps are numbered from 0.
CondDictOf(w) == [s \in Steps |-> w[s + 1]]

\* The step lists of a direct get_cleaned_data(*steps) call: any steps in
\* any order, none twice.
StepLists ==
    {l \in UNION {[1 .. n -> Steps] : n \in 0 .. NSteps} :
        \A i, j \in DOMAIN l : i # j => l[i] # l[j]}

\* The state every instance and session starts from.
Fresh ==
    /\ step_data = NoStepData
    /\ current_step = NoStep
    /\ condition_cache = NewInstance.cond
    /\ cleaned_step_data_cache = NewInstance.data
    /\ clean_calls = NewInstance.calls
    /\ condition_calls = NewInstance.resolves
    /\ load_calls = NewInstance.loads
    /\ func_calls = 0
    /\ func_args = None
    /\ func_results = None
    /\ messages = <<>>
    /\ response = NoResponse
    /\ ret = Called("init", <<>>, <<>>)

\* Any of the views, with any setting of its class attributes.
Init ==
    /\ view \in {"WizardView", "FormView"}
    /\ condition_dict \in {CondDictOf(w) : w \in CondDicts}
    /\ view = "FormView" => condition_dict = CondDictOf(<<"absent", "absent", "is_staff">>)
    /\ raise_run_errors \in BOOLEAN
    /\ success_message \in Templates
    /\ Fresh

\* Any of the wizards, with the class defaults for the attributes that the
\* methods called directly do not read.
InitCalls ==
    /\ view = "WizardView"
    /\ condition_dict \in {CondDictOf(w) : w \in CondDicts \ {<<"absent", "absent", "is_staff">>}}
    /\ raise_run_errors = FALSE
    /\ success_message = ""
    /\ Fresh

\* A request handled to its end leaves `out` behind.
Handled(op, out) ==
    /\ step_data' = out.sd
    /\ current_step' = out.cur
    /\ condition_cache' = out.st.cond
    /\ cleaned_step_data_cache' = out.st.data
    /\ clean_calls' = out.st.calls
    /\ condition_calls' = out.st.resolves
    /\ load_calls' = out.st.loads
    /\ func_calls' = out.func_calls
    /\ func_args' = out.func_args
    /\ func_results' = out.func_results
    /\ messages' = out.messages
    /\ response' = out.response
    /\ ret' = Called(op, <<>>, <<>>)
    /\ UNCHANGED <<view, condition_dict, raise_run_errors, success_message>>

\* A direct call on the instance of the current request leaves the instance
\* `st` and returns `val`.
Returned(op, arg, r) ==
    /\ condition_cache' = r.st.cond
    /\ cleaned_step_data_cache' = r.st.data
    /\ clean_calls' = r.st.calls
    /\ condition_calls' = r.st.resolves
    /\ load_calls' = r.st.loads
    /\ ret' = Called(op, arg, r.val)
    /\ UNCHANGED <<view, condition_dict, raise_run_errors, success_message,
                   step_data, current_step, func_calls, func_args, func_results,
                   messages, response>>

\* GET of the wizard.
Get ==
    /\ view = "WizardView"
    /\ Handled("get", get)

\* The runs of the bound function to draw for the POST of d as step c: how
\* the run ends is drawn only when the request reaches it.
RunsOf(c, d) ==
    IF post(c, d, FALSE, "").func_calls = 0
    THEN {[raises |-> FALSE, results |-> ""]}
    ELSE Runs

\* POST of a wizard step.
Post ==
    /\ view = "WizardView"
    /\ \E c \in Steps : \E d \in PostedFor(c) : \E run \in RunsOf(c, d) :
          Handled("post", post(c, d, run.raises, run.results))

\* django: as_view() builds a new instance for the next request of the session.
Dispatch ==
    /\ view = "WizardView"
    /\ Handled("dispatch", Plain(NewInstance, step_data, current_step, NoResponse))

CallGetFormList ==
    /\ view = "WizardView"
    /\ \E until \in Steps \cup {NoStep} :
          Returned("get_form_list", until, get_form_list(Self, step_data, until))

CallGetCleanedData ==
    /\ view = "WizardView"
    /\ \E steps \in StepLists :
          Returned("get_cleaned_data", steps, get_cleaned_data(Self, step_data, steps))

CallGetCleanedDataForStep ==
    /\ view = "WizardView"
    /\ \E step \in Steps :
          Returned("get_cleaned_data_for_step", step,
                   get_cleaned_data_for_step(Self, step_data, step))

\* POST of the single-form view.
FormPost ==
    /\ view = "FormView"
    /\ \E d \in PostedWith(FormFields) : \E run \in Runs :
          Handled("form_post", form_post(d, run.raises, run.results))

\* The requests a client can send.
Next ==
    \/ Get
    \/ Post
    \/ FormPost

Spec == Init /\ [][Next]_vars

\* The requests of a wizard session, and the calls that the code run within
\* a request (hooks, context, templates) can make on its instance.
NextCalls ==
    \/ Get
    \/ Post
    \/ Dispatch
    \/ CallGetFormList
    \/ CallGetCleanedData
    \/ CallGetCleanedDataForStep

SpecCalls == InitCalls /\ [][NextCalls]_vars

\* A step's form built on the instance of the current request, as the
\* framework and the templates do through get_form(step=...).
CallGetForm ==
    /\ view = "WizardView"
    /\ \E step \in Steps :
          Returned("get_form", step, get_form(Self, step_data, step))

\* The requests of a wizard session and the forms built within them.
NextForms ==
    \/ Get
    \/ Post
    \/ Dispatch
    \/ CallGetForm

SpecForms == InitCalls /\ [][NextForms]_vars

\* The requests of a wizard session and the step lists asked for within
\* them.
NextLists ==
    \/ Get
    \/ Post
    \/ Dispatch
    \/ CallGetFormList

SpecLists == InitCalls /\ [][NextLists]_vars

\* A client that walks through the wizard: it opens the wizard when no
\* step is shown, and submits the step shown with valid data, one request
\* per submission; the bound function returns.
Open ==
    /\ response.kind # "render"
    /\ Get

Submit ==
    /\ view = "WizardView"
    /\ response.kind = "render"
    /\ \E d \in PostedFor(response.step) : \E run \in RunsOf(response.step, d) :
          /\ is_valid(response.step, d)
          /\ ~run.raises
          /\ Handled("post", post(response.step, d, run.raises, run.results))

InitWalk ==
    /\ Init
    /\ view = "WizardView"

NextWalk ==
    \/ Open
    \/ Submit

\* The client does submit the step it is shown: weak fairness of Submit,
\* with the enabling condition of Submit (a step is shown) written out.
WalkFair == []<>(response.kind # "render") \/ []<><<Submit>>_vars

SpecWalk == InitWalk /\ [][NextWalk]_vars /\ WalkFair

\* ------------------------------------------------------------- forms.py

\* Exceptions: their class, where they were raised, and their __cause__.
NoCause == <<>>
Exception(type, origin) == [type |-> type, origin |-> origin, cause |-> NoCause]
\* No exception was raised.
NoException == [type |-> "", origin |-> "", cause |-> NoCause]

\* The values of the arguments of the bound function that the validators
\* read: Bad is the value the validator of that argument rejects.
ArgValues(name) == IF name = "source" THEN (1 .. MaxSource) \cup {Bad} ELSE {1, Bad}
\* The mappings of some of `names` to values.
ArgsOver(names) ==
    UNION {{d \in [n -> (1 .. MaxSource) \cup {Bad}] :
               \A k \in n : d[k] \in ArgValues(k)} : n \in SUBSET names}

\* python-args: func.partial.pre_func(**args) for the validators of
\* grant_staff_access, in their order.  A validator runs when the call has
\* the argument it names: validate_source raises a ValidationError,
\* check_username a ValueError.  The result is the exception raised.
pre_func(args) ==
    IF "source" \in DOMAIN args /\ args["source"] = Bad
    THEN Exception("ValidationError", "validate_source")
    ELSE IF "user" \in DOMAIN args /\ args["user"] = Bad
    THEN Exception("ValueError", "check_username")
    ELSE NoException

\* _only_raise_validation_error wrapping the exception without `from exc`.
only_raise_validation_error_no_cause(exc) ==
    IF exc = NoException \/ exc.type = "ValidationError"
    THEN exc
    ELSE Exception("ValidationError", "_only_raise_validation_error")

\* _only_raise_validation_error applied to what its block raised: a
\* ValidationError is re-raised, anything else is raised as a
\* ValidationError from the original exception.
only_raise_validation_error(exc) ==
    IF exc = NoException \/ exc.type = "ValidationError"
    THEN exc
    ELSE [Exception("ValidationError", "_only_raise_validation_error")
             EXCEPT !.cause = <<exc>>]

\* The validator that get_field_validator(func, field_label) returns,
\* applied to val: the exception it raises.
validate_field(field_label, val) ==
    only_raise_validation_error(pre_func((field_label :> val)))

\* How the form's original clean ends: it raises, or returns a mapping.
OldCleans ==
    {[val |-> None, exc |-> Exception("ValidationError", "old_clean")]} \cup
    {[val |-> Some(d), exc |-> NoException] : d \in ArgsOver({"source", "user"})}

\* The default_args given to adapt: None, or a mapping.
DefaultArgs == {None} \cup {Some(d) : d \in ArgsOver({"source", "user"})}

\* clean returning what it gave the validators instead of what the
\* original clean returned.
clean_merged(old_clean, default_args) ==
    LET defaults == IF default_args = None THEN EmptyDict ELSE default_args[1]
        validate(exc) ==
            IF exc # NoException
            THEN [calls |-> <<"old_clean", "pre_func">>, val |-> None, exc |-> exc]
            ELSE [calls |-> <<"old_clean", "pre_func">>,
                  val |-> Some(Update(defaults, old_clean.val[1])),
                  exc |-> NoException]
    IN  IF old_clean.exc # NoException
        THEN [calls |-> <<"old_clean">>, val |-> None, exc |-> old_clean.exc]
        ELSE validate(only_raise_validation_error(
                          pre_func(Update(defaults, old_clean.val[1]))))

\* The clean method that get_form_clean installs on the form, called once:
\* the exception that leaves it, the mapping it returns, and the calls it
\* made in their order.
clean(old_clean, default_args) ==
    LET defaults == IF default_args = None THEN EmptyDict ELSE default_args[1]
        validate(exc) ==
            IF exc # NoException
            THEN [calls |-> <<"old_clean", "pre_func">>, val |-> None, exc |-> exc]
            ELSE [calls |-> <<"old_clean", "pre_func">>, val |-> old_clean.val,
                  exc |-> NoException]
    IN  IF old_clean.exc # NoException
        THEN [calls |-> <<"old_clean">>, val |-> None, exc |-> old_clean.exc]
        ELSE validate(only_raise_validation_error(
                          pre_func(Update(defaults, old_clean.val[1]))))

\* A function of the library applied to `arg` returned or raised `val`;
\* no view is involved.
Applied(op, arg, val) ==
    /\ ret' = Called(op, arg, val)
    /\ UNCHANGED <<view, condition_dict, raise_run_errors, success_message,
                   step_data, current_step, condition_cache,
                   cleaned_step_data_cache, clean_calls, condition_calls,
                   load_calls, func_calls, func_args, func_results, messages,
                   response>>

CallValidateField ==
    \E field_label \in {"source", "user"} : \E val \in ArgValues(field_label) :
        Applied("validate_field", (field_label :> val), validate_field(field_label, val))

CallClean ==
    \E old_clean \in OldCleans : \E default_args \in DefaultArgs :
        Applied("clean", [old_clean |-> old_clean, default_args |-> default_args],
                clean(old_clean, default_args))

\* ------------------------------------------------------------- utils.py

\* arg.call(): None outside a python-args call, else the call, which is
\* partial when only the validators run.
ArgCalls == {None} \cup {Some([is_partial |-> b]) : b \in BOOLEAN}

\* The select_for_update settings of djarg.qset: None, a bool, a dict of
\* keyword arguments, a list or a tuple of relations.
SelectForUpdates ==
    {[kind |-> "None", value |-> <<>>],
     [kind |-> "bool", value |-> TRUE],
     [kind |-> "bool", value |-> FALSE],
     [kind |-> "dict", value |-> [of |-> <<"self">>, skip_locked |-> TRUE]],
     [kind |-> "dict", value |-> [nowait |-> TRUE]],
     [kind |-> "list", value |-> <<"self">>],
     [kind |-> "tuple", value |-> <<"self", "profile">>]}

\* django: the arguments of QuerySet.select_for_update() when none is given.
SelectForUpdateDefaults == [of |-> <<>>, skip_locked |-> FALSE, nowait |-> FALSE]

\* A queryset over some objects, without a lock.
QuerySets == {[objects |-> o, select_for_update |-> None] : o \in SUBSET (1 .. MaxSource)}

\* _attach_select_for_update that does not look at is_partial.
attach_select_for_update_partial(call, qset, select_for_update) ==
    IF call # None /\ select_for_update.kind # "None"
    THEN IF select_for_update.kind = "dict"
         THEN [qset EXCEPT !.select_for_update =
                   Some(Update(SelectForUpdateDefaults, select_for_update.value))]
         ELSE IF select_for_update.kind \in {"list", "tuple"}
         THEN [qset EXCEPT !.select_for_update =
                   Some([SelectForUpdateDefaults EXCEPT !.of = select_for_update.value])]
         ELSE [qset EXCEPT !.select_for_update = Some(SelectForUpdateDefaults)]
    ELSE qset

\* _attach_select_for_update(qset, select_for_update) under arg.call() = call.
attach_select_for_update(call, qset, select_for_update) ==
    IF call # None /\ ~call[1].is_partial /\ select_for_update.kind # "None"
    THEN IF select_for_update.kind = "dict"
         THEN [qset EXCEPT !.select_for_update =
                   Some(Update(SelectForUpdateDefaults, select_for_update.value))]
         ELSE IF select_for_update.kind \in {"list", "tuple"}
         THEN [qset EXCEPT !.select_for_update =
                   Some([SelectForUpdateDefaults EXCEPT !.of = select_for_update.value])]
         ELSE [qset EXCEPT !.select_for_update = Some(SelectForUpdateDefaults)]
    ELSE qset

CallAttachSelectForUpdate ==
    \E call \in ArgCalls : \E qset \in QuerySets :
        \E select_for_update \in SelectForUpdates :
            Applied("_attach_select_for_update",
                    [call |-> call, select_for_update |-> select_for_update,
                     qset |-> qset],
                    attach_select_for_update(call, qset, select_for_update))

\* ----------------------------------------------------- MultipleObjectsMixin

\* The objects that get_queryset() holds, by primary key.
Objects == SUBSET (1 .. MaxPk)
\* request.GET.getlist('pk'): any values in any order, repeated or not;
\* 0 is the key of no object.
QueryVals == UNION {[1 .. n -> 0 .. MaxPk] : n \in 0 .. MaxVals}

\* get_objects without the comparison of the two lengths.
get_objects_some(queryset, query_vals) ==
    LET objects == {o \in queryset : \E i \in DOMAIN query_vals : query_vals[i] = o}
    IN  IF objects = {}
        THEN [val |-> None, exc |-> "Http404"]
        ELSE [val |-> Some(objects), exc |-> ""]

\* MultipleObjectsMixin.get_objects: the objects whose key is among the
\* values, Http404 when there is none or their number is not the number
\* of values.  exc is the exception raised ("" for none).
get_objects(queryset, query_vals) ==
    LET objects == {o \in queryset : \E i \in DOMAIN query_vals : query_vals[i] = o}
    IN  IF objects = {}
        THEN [val |-> None, exc |-> "Http404"]
        ELSE IF Cardinality(objects) # Len(query_vals)
        THEN [val |-> None, exc |-> "Http404"]
        ELSE [val |-> Some(objects), exc |-> ""]

\* MultipleObjectsMixin.post of ObjectsFormView on a new instance:
\* self.objects = self.get_objects(), then FormMixin.post.
objects_post(queryset, query_vals, d, raises, results) ==
    LET then(got) ==
            IF got.exc # ""
            THEN [out |-> Plain(NewInstance, step_data, current_step, Raised(got.exc)),
                  objects |-> None]
            ELSE [out |-> form_post(d, raises, results), objects |-> got.val]
    IN  then(get_objects(queryset, query_vals))

\* POST of the objects view with a query string.
ObjectsPost ==
    \E queryset \in Objects : \E query_vals \in QueryVals :
        \E d \in PostedWith(FormFields) :
            \E run \in (IF is_valid(NoStep, d) THEN Runs
                         ELSE {[raises |-> FALSE, results |-> ""]}) :
                Applied("objects_post",
                        [queryset |-> queryset, query_vals |-> query_vals, d |-> d],
                        objects_post(queryset, query_vals, d, run.raises, run.results))

\* The functions of forms.py and utils.py and the objects view applied to
\* any of their inputs.
InitLib ==
    /\ view = "FormView"
    /\ condition_dict = CondDictOf(<<"absent", "absent", "is_staff">>)
    /\ raise_run_errors = FALSE
    /\ success_message = ""
    /\ Fresh

NextLib ==
    \/ CallValidateField
    \/ CallClean
    \/ CallAttachSelectForUpdate
    \/ ObjectsPost

SpecLib == InitLib /\ [][NextLib]_vars

\* ------------------------------------------------------------ properties

\* The steps of a list.
InList(step, list) == \E i \in DOMAIN list : list[i] = step
\* The steps of `list` that come before `step` in declaration order.
Upto(list, step) == SelectSeq(list, LAMBDA s : s < step)
\* A step that get_form_list(until) walks over.
Walked(step, until) == until = NoStep \/ step < until
\* The bound function was called in this request and raised.
RunRaised == func_calls = 1 /\ func_results = None

\* C1: fail-open.  After get_form_list, every step it walked over whose
\* condition is an arg.func, and for which get_cleaned_data over the steps
\* included before it is None, is in the returned list.
C1_FailOpen ==
    ret.op = "get_form_list" =>
        \A s \in Steps :
            ( /\ Walked(s, ret.arg)
              /\ condition_dict[s] \in ArgFuncs
              /\ get_cleaned_data(Self, step_data, Upto(ret.val, s)).val = None )
            => InList(s, ret.val)

C1_Witness ==
    /\ ret.op = "get_form_list"
    /\ \E s \in Steps :
        /\ Walked(s, ret.arg)
        /\ condition_dict[s] = "not_is_staff"
        /\ get_cleaned_data(Self, step_data, Upto(ret.val, s)).val = None
        /\ InList(s, ret.val)

\* C2: for the wizard [S0, S1 if is_staff, S2 if not is_staff], once S0 is
\* stored with valid data, get_form_list() returns [S0, S1] for
\* is_staff=True and [S0, S2] for is_staff=False.
C2_CondInclusion ==
    ( /\ condition_dict = CondDictOf(<<"callable", "is_staff", "not_is_staff">>)
      /\ ret.op = "get_form_list"
      /\ ret.arg = NoStep
      /\ is_valid(0, step_data[0]) )
    => ret.val = IF step_data[0]["is_staff"] = 1 THEN <<0, 1>> ELSE <<0, 2>>

\* C3: get_form_list(until=S) returns, in declaration order, exactly the
\* steps before S whose cached condition is true: never S, never a step
\* declared after S; with until=None it ranges over every declared step.
C3_UntilExcluded ==
    ret.op = "get_form_list" =>
        /\ \A i \in DOMAIN ret.val : ret.val[i] \in Steps /\ Walked(ret.val[i], ret.arg)
        /\ \A i, j \in DOMAIN ret.val : i < j => ret.val[i] < ret.val[j]
        /\ \A s \in Steps :
              Walked(s, ret.arg) =>
                  /\ s \in DOMAIN condition_cache
                  /\ InList(s, ret.val) <=> condition_cache[s]

C3_Witness ==
    /\ ret.op = "get_form_list"
    /\ ret.arg = 1
    /\ ret.val = <<0>>
    /\ 1 \in DOMAIN condition_cache
    /\ condition_cache[1]

\* The cleaned data this instance has for a step: None when the step has
\* not validated.
CleanedFor(step) == get_cleaned_data_for_step(Self, step_data, step).val

\* C4: get_cleaned_data(*steps) returns None exactly when some listed step
\* has cleaned data None, whatever the other listed steps have.
C4_ShortCircuit ==
    ret.op = "get_cleaned_data" =>
        (ret.val = None <=> \E i \in DOMAIN ret.arg : CleanedFor(ret.arg[i]) = None)

C4_Witness ==
    /\ ret.op = "get_cleaned_data"
    /\ Len(ret.arg) = 3
    /\ CleanedFor(ret.arg[1]) # None
    /\ CleanedFor(ret.arg[2]) = None
    /\ CleanedFor(ret.arg[3]) # None
    /\ ret.val = None

\* The last position of `steps` whose step has the field k.
LastWith(steps, k) ==
    CHOOSE i \in DOMAIN steps :
        /\ k \in FieldsOf(steps[i])
        /\ \A j \in DOMAIN steps : k \in FieldsOf(steps[j]) => j <= i

\* C5: when every listed step validated, get_cleaned_data(*steps) returns
\* the union of the steps' cleaned data, each field with the value of the
\* last listed step that has it; with no steps it returns the empty dict.
C5_MergePrecedence ==
    (ret.op = "get_cleaned_data" /\ ret.val # None) =>
        /\ DOMAIN ret.val[1] = UNION {FieldsOf(ret.arg[i]) : i \in DOMAIN ret.arg}
        /\ \A k \in DOMAIN ret.val[1] :
              ret.val[1][k] = CleanedFor(ret.arg[LastWith(ret.arg, k)])[1][k]
        /\ ret.arg = <<>> => ret.val = Some(EmptyDict)

C5_Witness ==
    /\ ret.op = "get_cleaned_data"
    /\ ret.arg = <<2, 1>>
    /\ ret.val # None
    /\ CleanedFor(1)[1]["source"] # CleanedFor(2)[1]["source"]
    /\ ret.val[1]["source"] = CleanedFor(1)[1]["source"]

\* The requests: each is served by a new instance.
Requests == {"get", "post", "dispatch", "form_post"}

\* C6: on one instance a step is cleaned by the framework at most once;
\* get_cleaned_data_for_step returns the cached outcome, and a cached
\* outcome (None included) never changes nor is cleaned again.
C6_CleanOnce ==
    /\ [](\A s \in Steps : clean_calls[s] <= 1)
    /\ [](ret.op = "get_cleaned_data_for_step" =>
            /\ ret.arg \in DOMAIN cleaned_step_data_cache
            /\ ret.val = cleaned_step_data_cache[ret.arg])
    /\ [][ret'.op \notin Requests =>
            \A s \in DOMAIN cleaned_step_data_cache :
                /\ s \in DOMAIN cleaned_step_data_cache'
                /\ cleaned_step_data_cache'[s] = cleaned_step_data_cache[s]
                /\ clean_calls'[s] = clean_calls[s]]_vars

\* A call answered from the cache: it returns None although the storage by
\* now holds valid data for the step.
C6_Witness ==
    /\ ret.op = "get_cleaned_data_for_step"
    /\ ret.val = None
    /\ is_valid(ret.arg, step_data[ret.arg])
    /\ clean_calls[ret.arg] = 1

\* C7: within one request the bound function runs at most once; a request
\* that ends in the success redirect ran it exactly once, and a request
\* that renders a step (GET, an intermediate or rejected submission, a
\* failed revalidation) did not run it.
C7_SingleExecution ==
    view = "WizardView" =>
        /\ func_calls <= 1
        /\ response.kind = "redirect" => (func_calls = 1 /\ func_results # None)
        /\ (response.kind = "render" /\ response.error \in {"", "invalid", "revalidation"})
              => func_calls = 0

C7_Witness ==
    /\ view = "WizardView"
    /\ ret.op = "post"
    /\ response.kind = "redirect"
    /\ func_calls = 1
    /\ \E s \in Steps \ {0} : s \in DOMAIN cleaned_step_data_cache

\* C8: when the bound function raises in the wizard's completion, the
\* response is the current step rendered again with the exception attached
\* (no redirect) if raise_run_errors is false, and the same exception
\* leaving the view if it is true.
C8_WizardRunFailure ==
    (view = "WizardView" /\ ret.op = "post" /\ RunRaised) =>
        IF raise_run_errors
        THEN response = Raised("RuntimeError")
        ELSE response = Render(current_step, "RuntimeError") /\ current_step \in Steps

C8_Witness ==
    /\ view = "WizardView"
    /\ ret.op = "post"
    /\ RunRaised
    /\ ~raise_run_errors
    /\ response = Render(current_step, "RuntimeError")

\* C9: when the bound function raises for a valid submission of the
\* single-form view, the response is the form shown again with the
\* exception attached (no redirect) if raise_run_errors is false, and the
\* same exception leaving the view if it is true.
C9_FormRunFailure ==
    (view = "FormView" /\ ret.op = "form_post" /\ RunRaised) =>
        IF raise_run_errors
        THEN response = Raised("RuntimeError")
        ELSE response = Render(NoStep, "RuntimeError")

C9_Witness ==
    /\ view = "FormView"
    /\ ret.op = "form_post"
    /\ RunRaised
    /\ ~raise_run_errors
    /\ response = Render(NoStep, "RuntimeError")

\* C10: a success message is recorded only by a request whose function run
\* returned; it is the text built from the function's arguments and
\* results, recorded when that text is not empty and only then.
C10_SuccessMessage ==
    /\ messages # <<>> =>
          /\ func_calls = 1
          /\ func_results # None
          /\ response = Redirect
          /\ messages = <<get_success_message(func_args[1], func_results[1])>>
          /\ messages[1] # <<>>
    /\ RunRaised => messages = <<>>
    /\ (response = Redirect /\ get_success_message(func_args[1], func_results[1]) = <<>>)
          => messages = <<>>

C10_Witness ==
    /\ response = Redirect
    /\ messages = <<get_success_message(func_args[1], func_results[1])>>
    /\ func_args[1]["source"] # 0

\* C11: when get_form_list is called on an instance with another `until`
\* than its previous call, the condition of every step before the new
\* `until` that the cache holds is resolved again instead of being reused.
C11_RebuildOnUntil ==
    [][(ret.op = "get_form_list" /\ ret'.op = "get_form_list" /\ ret'.arg # ret.arg) =>
          \A s \in Steps :
              (Walked(s, ret'.arg) /\ s \in DOMAIN condition_cache) =>
                  condition_calls'[s] = condition_calls[s] + 1]_vars

ActiveBefore(step) ==
    {s \in Steps : s < step /\ s \in DOMAIN condition_cache /\ condition_cache[s]}
\* Some of those steps has no cleaned data on this instance.
IncompleteBefore(step) ==
    \E s \in ActiveBefore(step) :
        s \in DOMAIN cleaned_step_data_cache /\ cleaned_step_data_cache[s] = None
\* The last of those steps that carries field k.
LastActiveWith(step, k) ==
    CHOOSE s \in ActiveBefore(step) :
        /\ k \in FieldsOf(s)
        /\ \A t \in ActiveBefore(step) : k \in FieldsOf(t) => t <= s

\* C13: get_form(step=S) always returns a form, whose default context is
\* get_default_args() alone when the active steps before S have no complete
\* cleaned data, and otherwise get_default_args() overlaid with the cleaned
\* data of exactly the active steps before S, a step's field winning over
\* a default of the same name and S itself contributing nothing.
C13_FormContext ==
    ret.op = "get_form" =>
        LET fields == UNION {FieldsOf(s) : s \in ActiveBefore(ret.arg)}
        IN  /\ \A s \in Steps : s < ret.arg => s \in DOMAIN condition_cache
            /\ IF IncompleteBefore(ret.arg)
               THEN ret.val = get_default_args
               ELSE /\ DOMAIN ret.val = (DOMAIN get_default_args) \cup fields
                    /\ \A k \in fields :
                          ret.val[k] =
                              cleaned_step_data_cache[LastActiveWith(ret.arg, k)][1][k]
                    /\ \A k \in (DOMAIN get_default_args) \ fields :
                          ret.val[k] = get_default_args[k]

\* The form of the last step built over a validated step that carries the
\* field a default also names.
C13_Witness ==
    /\ ret.op = "get_form"
    /\ ret.arg = 2
    /\ 1 \in ActiveBefore(2)
    /\ ~IncompleteBefore(2)
    /\ ret.val["source"] = cleaned_step_data_cache[1][1]["source"]
    /\ ret.val["source"] # get_default_args["source"]

\* C14: when the wizard's completion calls the bound function, every
\* declared step's condition has been resolved (no stop boundary), every
\* included step has cleaned data, and the function's arguments are
\* get_default_args() overlaid with the cleaned data of all included steps,
\* a step's field winning over a default of the same name; a completion
\* never reaches run_func with incomplete data.
C14_CompletionArgs ==
    view = "WizardView" =>
        /\ response.error # "TypeError"
        /\ func_calls = 1 =>
              LET fields == UNION {FieldsOf(s) : s \in ActiveBefore(NSteps)}
              IN  /\ Steps \subseteq DOMAIN condition_cache
                  /\ \A s \in ActiveBefore(NSteps) :
                        /\ s \in DOMAIN cleaned_step_data_cache
                        /\ cleaned_step_data_cache[s] # None
                  /\ func_args # None
                  /\ DOMAIN func_args[1] = (DOMAIN get_default_args) \cup fields
                  /\ \A k \in fields :
                        func_args[1][k] =
                            cleaned_step_data_cache[LastActiveWith(NSteps, k)][1][k]
                  /\ \A k \in (DOMAIN get_default_args) \ fields :
                        func_args[1][k] = get_default_args[k]

\* A completion of GrantStaffCondWizardView over its first and last step:
\* the last step's source replaces the default.
C14_Witness ==
    /\ view = "WizardView"
    /\ response = Redirect
    /\ func_calls = 1
    /\ ActiveBefore(NSteps) = {0, 2}
    /\ func_args[1]["source"] = cleaned_step_data_cache[2][1]["source"]
    /\ func_args[1]["is_staff"] = 0

\* C15: the adapted clean runs the original clean first and the validators
\* after it, on default_args overlaid with the cleaned data; when they pass
\* it returns exactly the mapping the original clean returned, and when a
\* validator raises it raises a ValidationError and returns nothing.
C15_AdaptedClean ==
    ret.op = "clean" =>
        LET old_clean == ret.arg.old_clean
            defaults == IF ret.arg.default_args = None THEN EmptyDict
                        ELSE ret.arg.default_args[1]
        IN  /\ Head(ret.val.calls) = "old_clean"
            /\ old_clean.exc = NoException =>
                  /\ ret.val.calls = <<"old_clean", "pre_func">>
                  /\ IF pre_func(Update(defaults, old_clean.val[1])) = NoException
                     THEN ret.val.exc = NoException /\ ret.val.val = old_clean.val
                     ELSE ret.val.exc.type = "ValidationError" /\ ret.val.val = None

\* The cleaned data overrides a default that the validators reject, they
\* pass, and the mapping returned is the original one, without the defaults.
C15_Witness ==
    /\ ret.op = "clean"
    /\ ret.arg.default_args # None
    /\ ret.arg.old_clean.exc = NoException
    /\ DOMAIN ret.arg.default_args[1] = {"source", "user"}
    /\ ret.arg.default_args[1]["source"] = Bad
    /\ DOMAIN ret.arg.old_clean.val[1] = {"source"}
    /\ ret.val.exc = NoException
    /\ ret.val.val = ret.arg.old_clean.val

\* What the validators raise for the call that a validate_field or a clean
\* makes of them.
ValidatorsRaised ==
    IF ret.op = "validate_field"
    THEN pre_func(ret.arg)
    ELSE pre_func(Update(IF ret.arg.default_args = None THEN EmptyDict
                         ELSE ret.arg.default_args[1],
                         ret.arg.old_clean.val[1]))

\* C16: for the field validator and for the adapted clean, a ValidationError
\* raised by the validators leaves unchanged, any other exception leaves as
\* a ValidationError whose cause is the original exception, and nothing but
\* a ValidationError ever leaves.
C16_ErrorConversion ==
    ( \/ ret.op = "validate_field"
      \/ ret.op = "clean" /\ ret.arg.old_clean.exc = NoException ) =>
        LET raised == ValidatorsRaised
            exc == IF ret.op = "clean" THEN ret.val.exc ELSE ret.val
        IN  /\ exc.type \in {"", "ValidationError"}
            /\ raised = NoException <=> exc = NoException
            /\ raised.type = "ValidationError" => exc = raised
            /\ raised.type \notin {"", "ValidationError"} =>
                  exc.type = "ValidationError" /\ exc.cause = <<raised>>

\* A ValueError of check_username leaves clean as a ValidationError.
C16_Witness ==
    /\ ret.op = "clean"
    /\ ret.arg.old_clean.exc = NoException
    /\ ValidatorsRaised.type = "ValueError"
    /\ ret.val.exc.type = "ValidationError"
    /\ ret.val.exc.cause = <<ValidatorsRaised>>

\* GrantStaffCondWizardView is the wizard served.
GrantStaffCond ==
    /\ view = "WizardView"
    /\ condition_dict = CondDictOf(<<"callable", "is_staff", "not_is_staff">>)

\* C17: in a session where S0 is stored with is_staff=True and S1 is the
\* step shown, a later request that submits S0 again with is_staff=False
\* renders S2, and its conditions and its cleaned data for S0 are those of
\* the newly stored data: nothing of the earlier request's results is used.
C17_Resubmission ==
    [][( /\ GrantStaffCond
         /\ response.kind = "render" /\ response.step = 1 /\ current_step = 1
         /\ is_valid(0, step_data[0]) /\ step_data[0]["is_staff"] = 1
         /\ ret'.op = "post"
         /\ is_valid(0, step_data'[0]) /\ step_data'[0]["is_staff"] = 0 ) =>
            /\ response' = Render(2, "")
            /\ current_step' = 2
            /\ condition_cache' = (0 :> TRUE @@ 1 :> FALSE @@ 2 :> TRUE)
            /\ cleaned_step_data_cache'[0] = Some(step_data'[0])]_vars

\* The session from which S0 is submitted again: S0 was submitted with
\* is_staff=True, its request resolved the conditions to [S0, S1] and showed
\* S1.  Every submission a client can make is taken from it.
C17_Witness ==
    /\ GrantStaffCond
    /\ ret.op = "post"
    /\ response = Render(1, "")
    /\ current_step = 1
    /\ is_valid(0, step_data[0]) /\ step_data[0]["is_staff"] = 1
    /\ condition_cache = (0 :> TRUE @@ 1 :> TRUE @@ 2 :> FALSE)
    /\ cleaned_step_data_cache[0] = Some(step_data[0])

\* A request whose completion failed in the bound function and was
\* contained: the last step is shown again with the exception.
ContainedFailure ==
    /\ view = "WizardView"
    /\ ~raise_run_errors
    /\ ret.op = "post"
    /\ RunRaised
    /\ response = Render(current_step, "RuntimeError")

\* The request that posts valid data d for the step shown, the bound
\* function returning this time.
Retry(d) == post(current_step, d, FALSE, "done")

\* C18: after a contained failure of the completion the wizard is not
\* reset: the data of every included step, the last one too, stay stored
\* and the last step stays the current one, so that posting valid data for
\* the last step alone in a later request completes the wizard: the
\* function runs once and the response is the success redirect.
C18_RetryAfterFailure ==
    ContainedFailure =>
        /\ current_step \in ActiveBefore(NSteps)
        /\ \A s \in ActiveBefore(NSteps) : s <= current_step /\ is_valid(s, step_data[s])
        /\ \A d \in PostedFor(current_step) :
              is_valid(current_step, d) =>
                  /\ Retry(d).response = Redirect
                  /\ Retry(d).func_calls = 1
                  /\ Retry(d).func_results = Some("done")
                  /\ Retry(d).sd = NoStepData

\* A contained failure of a wizard of more than one step, from which the
\* retry of the last step alone succeeds.
C18_Witness ==
    /\ ContainedFailure
    /\ current_step > 0
    /\ \E d \in PostedFor(current_step) :
          /\ d # step_data[current_step]
          /\ Retry(d).response = Redirect
          /\ Retry(d).func_args[1]["source"] = d["source"]

\* C19: _attach_select_for_update returns the queryset unchanged when
\* there is no python-args call, when the call is partial (validators
\* only) and when select_for_update is None; otherwise it attaches a lock:
\* with the dict as keyword arguments, with the list or tuple as `of`, and
\* with the default arguments for any other value.
C19_AttachSelectForUpdate ==
    ret.op = "_attach_select_for_update" =>
        LET call == ret.arg.call
            setting == ret.arg.select_for_update
            lock == ret.val.select_for_update
        IN  /\ ret.val.objects = ret.arg.qset.objects
            /\ IF call = None \/ call[1].is_partial \/ setting.kind = "None"
               THEN ret.val = ret.arg.qset
               ELSE /\ lock # None
                    /\ setting.kind = "dict" =>
                          \A k \in DOMAIN SelectForUpdateDefaults :
                              lock[1][k] = IF k \in DOMAIN setting.value
                                           THEN setting.value[k]
                                           ELSE SelectForUpdateDefaults[k]
                    /\ setting.kind \in {"list", "tuple"} =>
                          lock[1] = [SelectForUpdateDefaults EXCEPT !.of = setting.value]
                    /\ setting.kind = "bool" => lock[1] = SelectForUpdateDefaults

\* A list given in a call that runs the function: the lock is `of` the list.
C19_Witness ==
    /\ ret.op = "_attach_select_for_update"
    /\ ret.arg.call = Some([is_partial |-> FALSE])
    /\ ret.arg.select_for_update.kind = "list"
    /\ ret.val.select_for_update = Some([SelectForUpdateDefaults EXCEPT !.of = <<"self">>])

\* The objects that the values of the query string match.
Matched == {o \in ret.arg.queryset : InList(o, ret.arg.query_vals)}

\* C20: get_objects returns the matched objects only when there is at
\* least one and they are as many as the values given; with no value, or
\* with a value that matches no object, Http404 leaves the view before
\* the form is built and before the function runs.
C20_GetObjects ==
    ret.op = "objects_post" =>
        /\ ret.val.objects # None =>
              /\ ret.val.objects = Some(Matched)
              /\ Matched # {}
              /\ Cardinality(Matched) = Len(ret.arg.query_vals)
        /\ ( \/ ret.arg.query_vals = <<>>
             \/ \E i \in DOMAIN ret.arg.query_vals :
                   ret.arg.query_vals[i] \notin ret.arg.queryset ) =>
              ret.val.objects = None
        /\ ret.val.objects = None =>
              /\ ret.val.out.response = Raised("Http404")
              /\ ret.val.out.func_calls = 0
        /\ ret.val.objects # None => ret.val.out.response # Raised("Http404")

\* One of two values matches no object: Http404 although an object matched
\* and the posted form was valid.
C20_Witness ==
    /\ ret.op = "objects_post"
    /\ Len(ret.arg.query_vals) = 2
    /\ Matched # {}
    /\ is_valid(NoStep, ret.arg.d)
    /\ ret.val.objects = None
    /\ ret.val.out.response = Raised("Http404")

\* The condition of a declared step evaluated with the arguments `args`.
HoldsUnder(step, args) ==
    IF condition_dict[step] \in ArgFuncs
    THEN arg_load(condition_dict[step], args)
    ELSE condition_dict[step] # "const_false"

\* The steps the storage holds data for.
Stored(sd) == {s \in Steps : sd[s] # None}

\* The data of the stored steps merged in declaration order.
RECURSIVE StoredDataFrom(_, _)
StoredDataFrom(sd, step) ==
    IF step = NSteps
    THEN EmptyDict
    ELSE Update(IF sd[step] = None THEN EmptyDict ELSE sd[step],
                StoredDataFrom(sd, step + 1))

\* C21: wizard progress.  When every step shown is submitted with valid
\* data and the function returns, a submission either shows a step declared
\* after the submitted one whose condition holds under the data stored so
\* far, or completes; at completion the steps submitted are exactly the
\* declared steps whose condition holds under the complete data handed to
\* the function; and every shown step leads to the completion.
C21_Progress ==
    /\ [][ret'.op = "post" =>
            /\ response'.kind \in {"render", "redirect"}
            /\ response'.kind = "render" =>
                  /\ response'.error = ""
                  /\ response'.step > response.step
                  /\ current_step' = response'.step
                  /\ Stored(step_data') = Stored(step_data) \cup {response.step}
                  /\ HoldsUnder(response'.step,
                                Update(get_default_args, StoredDataFrom(step_data', 0)))
            /\ response'.kind = "redirect" =>
                  /\ func_calls' = 1
                  /\ Stored(step_data) \cup {response.step} =
                         {s \in Steps : HoldsUnder(s, func_args'[1])}]_vars
    /\ (response.kind = "render") ~> (response.kind = "redirect")

\* A wizard completed after two submissions, its middle step left out
\* because its condition is false under the complete data.
C21_Witness ==
    /\ response.kind = "redirect"
    /\ condition_dict[1] = "is_staff"
    /\ func_args # None
    /\ func_args[1]["is_staff"] = 0
    /\ DOMAIN cleaned_step_data_cache = {0, 2}

\* C22: fail-open depends on every included earlier step.  After
\* get_form_list, a walked step with an arg.func condition is in the list,
\* its condition never loaded, whenever some step included before it has
\* no cleaned data, whatever the steps that did validate hold; and a
\* condition was loaded only when every step included before it validated.
C22_FailOpenAllSteps ==
    /\ ret.op = "get_form_list" =>
          \A s \in Steps :
              ( /\ Walked(s, ret.arg)
                /\ condition_dict[s] \in ArgFuncs
                /\ \E i \in DOMAIN ret.val :
                      ret.val[i] < s /\ CleanedFor(ret.val[i]) = None )
              => (InList(s, ret.val) /\ condition_cache[s] /\ load_calls[s] = 0)
    /\ \A s \in Steps :
          load_calls[s] > 0 =>
              \A t \in Steps :
                  (t < s /\ t \in DOMAIN condition_cache /\ condition_cache[t])
                  => CleanedFor(t) # None

\* S0 validated with is_staff=True, S1 is included without data: S2, whose
\* condition reads is_staff alone and is false for that value, is included
\* and its condition was not loaded.
C22_Witness ==
    /\ ret.op = "get_form_list"
    /\ ret.arg = NoStep
    /\ condition_dict[2] = "not_is_staff"
    /\ CleanedFor(0) # None
    /\ CleanedFor(0)[1]["is_staff"] = 1
    /\ InList(1, ret.val)
    /\ CleanedFor(1) = None
    /\ InList(2, ret.val)
    /\ load_calls[2] = 0
    /\ load_calls[1] = 1

\* The storage after at most one step's data was replaced or removed.
Changes(sd) ==
    {sd} \cup UNION {{[sd EXCEPT ![t] = d] : d \in PostedFor(t) \cup {None}} :
                         t \in Steps}

\* get_form_list(until) and then get_form_list() on the instance, the
\* storage holding sd2 by the second call: the first list is the second
\* one truncated before `until`.
PrefixThenAll(until, sd2) ==
    LET compare(part, all) == part.val = Upto(all.val, until)
        then(part) == compare(part, get_form_list(part.st, sd2, NoStep))
    IN  then(get_form_list(Self, step_data, until))

\* The same with the two calls in the other order.
AllThenPrefix(until, sd2) ==
    LET compare(all, part) == part.val = Upto(all.val, until)
        then(all) == compare(all, get_form_list(all.st, sd2, until))
    IN  then(get_form_list(Self, step_data, NoStep))

\* C23: prefix consistency on one instance.  Whatever the instance has
\* cached, get_form_list(until=S) returns get_form_list() truncated before
\* S, in either order of the two calls and with the step data changed
\* between them; a list just returned for S is that prefix too, and no
\* condition was resolved twice.
C23_PrefixConsistency ==
    /\ \A until \in Steps : \A sd2 \in Changes(step_data) :
          PrefixThenAll(until, sd2) /\ AllThenPrefix(until, sd2)
    /\ (ret.op = "get_form_list" /\ ret.arg # NoStep) =>
          ret.val = Upto(get_form_list(Self, step_data, NoStep).val, ret.arg)
    /\ \A s \in Steps : condition_calls[s] <= 1

\* The list for until=2 holds S1, whose condition was cached before S0's
\* is_staff=False was stored, as the full list of the instance does.
C23_Witness ==
    /\ ret.op = "get_form_list"
    /\ ret.arg = 2
    /\ ret.val = <<0, 1>>
    /\ condition_dict[1] = "is_staff"
    /\ is_valid(0, step_data[0])
    /\ step_data[0]["is_staff"] = 0
    /\ get_form_list(Self, step_data, NoStep).val = <<0, 1, 2>>

\* The steps whose condition the instance has resolved to False.
Excluded == {s \in Steps : s \in DOMAIN condition_cache /\ ~condition_cache[s]}

\* The storages that differ from sd at most in what they hold for the
\* excluded steps.
ApartFromExcluded(sd) ==
    {sd2 \in [Steps -> UNION {PostedFor(s) : s \in Steps} \cup {None}] :
        \A s \in Steps :
            IF s \in Excluded THEN sd2[s] \in PostedFor(s) \cup {None}
                              ELSE sd2[s] = sd[s]}

\* The instance with its conditions as resolved and no step cleaned yet.
Uncleaned == [Self EXCEPT !.data = <<>>]

\* C24: excluded steps contribute no data.  A step whose condition the
\* instance resolved to False is never cleaned; and whatever the storage
\* holds for the excluded steps, the conditions resolved after them, the
\* default context of every step's form and the arguments of the bound
\* function are the same.
C24_ExcludedNoData ==
    /\ \A s \in Excluded :
          s \notin DOMAIN cleaned_step_data_cache /\ clean_calls[s] = 0
    /\ \A sd2 \in ApartFromExcluded(step_data) :
          /\ get_form_list(Uncleaned, sd2, NoStep).val =
                 get_form_list(Uncleaned, step_data, NoStep).val
          /\ get_form_list(Uncleaned, sd2, NoStep).st.cond =
                 get_form_list(Uncleaned, step_data, NoStep).st.cond
          /\ \A step \in Steps :
                 get_form(Uncleaned, sd2, step).val =
                     get_form(Uncleaned, step_data, step).val
          /\ run_func(Uncleaned, sd2, FALSE, "").func_args =
                 run_func(Uncleaned, step_data, FALSE, "").func_args
          /\ ret.op = "get_form" => ret.val = get_form(Self, sd2, ret.arg).val

\* S1 was submitted and then excluded by a new S0: the context of S2's
\* form has S0's field and the default source, not the source stored for
\* S1.
C24_Witness ==
    /\ ret.op = "get_form"
    /\ ret.arg = 2
    /\ 1 \in Excluded
    /\ is_valid(1, step_data[1])
    /\ step_data[1]["source"] # get_default_args["source"]
    /\ "is_staff" \in DOMAIN ret.val
    /\ ret.val["source"] = get_default_args["source"]

====
